---- MODULE Spec2Model ----
(***************************************************************************)
(* State-machine model of the page handling of actor-zillow-api-scraper:   *)
(* src/src/page-handler.js (class PageHandler) driven by the crawler set   *)
(* up in src/src/main.js (handlePageFunction).                             *)
(*                                                                         *)
(* Several passes (one per worker of the autoscaled pool) run concurrently *)
(* over one request queue and share globalContext.zpids and                *)
(* globalContext.maxZpidsFound.  A pass is sequential; it can be           *)
(* interleaved with the other passes at each of its awaits.  A step of the *)
(* model is the code a pass runs from one await to the next.  A call of    *)
(* requestQueue.addRequest takes effect where it is issued.                *)
(***************************************************************************)
EXTENDS Integers, Sequences, FiniteSets, TLC

\* ---------------------------------------------------------------- bounds

\* Passes (handlePageFunction calls) started in one behaviour.
MaxPasses == 2

\* Passes started in one behaviour of the bootstrap (SpecBoot).
MaxBootPasses == 4

\* Results of one page and target addresses, for the address matcher run on
\* its own (SpecFn).
MaxResults == 2
MaxTargets == 2

\* Sub-rectangles splitQueryState (./functions, not among the sources)
\* returns: the N of the specification's fixed-arity partition.
SplitArity == 2

\* ------------------------------------------------------- program constants

\* `input.maxLevel ?? 5`
DefaultMaxLevel == 5

\* `const LISTINGS_PER_PAGE = 40`
LISTINGS_PER_PAGE == 40

\* PAGES_LIMIT and RESULTS_LIMIT of ./constants (not among the sources; the
\* values are the ones the specification's examples use).
PAGES_LIMIT == 20
RESULTS_LIMIT == 500

\* `f.rating >= 0.9`, ratings in tenths.
MatchThreshold == 9

\* `maxRequestRetries: input.maxRetries || 5`
MaxRequestRetries == 5

\* ---------------------------------------------------------- value domains

Workers == {1, 2}

\* Entity ids.  A valid zpid is a positive number; MissingId is a falsy zpid
\* (undefined, '', 0: `!zpid`); NonNumericId is a zpid with `+zpid != zpid`.
ValidIds == {1, 2}
MissingId == 0
NonNumericId == -2

\* A userData field the request does not carry.
Undefined == -1

\* Ratings of cos.sortMatch in tenths: 0.8, 0.9, 1.0.
Ratings == {8, 9, 10}

\* Leading street-number tokens of addresses.
Tokens == {1, 2}

\* The mutant of Max: the first argument, whatever the second.
MaxTakesFirst(a, b) == a

Max(a, b) == IF a >= b THEN a ELSE b
Min(a, b) == IF a <= b THEN a ELSE b

SeqsUpTo(S, n) == UNION {[1..k -> S] : k \in 0..n}

\* ------------------------------------------------- AddressMatcher (pure)
\* _processExtractedQueryStates, lines 497-537.  A result is
\* [zpid, tok, rating]: tok the first token of its address, rating[j] the
\* cosine rating of its address against target j.  targets[j] is the first
\* token of `su[j]`.

\* Array.prototype.sort with (a, b) => a.rating - b.rating is stable: x goes
\* after every element whose rating is not greater.
RECURSIVE InsertByRating(_, _)
InsertByRating(x, s) ==
    IF s = <<>> THEN <<x>>
    ELSE IF Head(s).rating > x.rating THEN <<x>> \o s
    ELSE <<Head(s)>> \o InsertByRating(x, Tail(s))

RECURSIVE SortByRating(_)
SortByRating(s) ==
    IF s = <<>> THEN <<>>
    ELSE InsertByRating(s[Len(s)], SortByRating(SubSeq(s, 1, Len(s) - 1)))

\* cos.sortMatch(address, su): one {index, rating} per target, by ascending
\* rating.
sortMatch(rating, targets) ==
    SortByRating([j \in 1..Len(targets) |-> [index |-> j, rating |-> rating[j]]])

\* The filter of lines 513-520.
matchedComparisons(r, targets) ==
    SelectSeq(sortMatch(r.rating, targets),
              LAMBDA f : f.rating >= MatchThreshold /\ r.tok = targets[f.index])

\* The mutant of KeepPrev: ties go to the earlier element.
KeepPrevOnTie(prev, current) == prev >= current

\* `(prev.rating > current.rating) ? prev : current`
KeepPrev(prev, current) == prev > current

\* matchedComparisons.reduce(...) of lines 523-525, on a non-empty array.
RECURSIVE reduceRating(_, _)
reduceRating(prev, rest) ==
    IF rest = <<>> THEN prev
    ELSE reduceRating(IF KeepPrev(prev.rating, Head(rest).rating)
                      THEN prev ELSE Head(rest), Tail(rest))

\* results[i] with .match set, for the results that have one (filteredResults).
filteredResults(results, targets) ==
    LET withMatch(r) ==
            LET mc == matchedComparisons(r, targets)
            IN  [zpid |-> r.zpid, tok |-> r.tok, rating |-> r.rating,
                 match |-> IF mc = <<>> THEN [index |-> 0, rating |-> 0]
                           ELSE reduceRating(Head(mc), Tail(mc))]
        all == [i \in 1..Len(results) |-> withMatch(results[i])]
    IN  SelectSeq(all, LAMBDA r : r.match.index # 0)

\* filteredResults.reduce(...) of lines 535-537, on a non-empty array.
RECURSIVE reduceMatch(_, _)
reduceMatch(prev, rest) ==
    IF rest = <<>> THEN prev
    ELSE reduceMatch(IF KeepPrev(prev.match.rating, Head(rest).match.rating)
                     THEN prev ELSE Head(rest), Tail(rest))

\* The matcher as a whole: threw when filteredResults is empty (reduce of an
\* empty array with no initial value is a TypeError), else results = [best];
\* flagged are the targets whose .matched is set (line 528).
AddressMatcher(results, targets) ==
    LET fr == filteredResults(results, targets)
    IN  [threw   |-> fr = <<>>,
         results |-> IF fr = <<>> THEN <<>> ELSE <<reduceMatch(Head(fr), Tail(fr))>>,
         flagged |-> {fr[i].match.index : i \in 1..Len(fr)}]

\* The posts to the report sink of lines 539-553, for the output out of the
\* matcher and the targets flagged so far in the run: nothing when the
\* reduction threw; else the results (the best match) and, in target order,
\* one "no detail match" record per target that is neither the baseUrl of
\* the best match nor flagged (`r?.baseUrl === f.url || f?.matched`).
Reports(out, targets, flags) ==
    IF out.threw THEN [match |-> <<>>, unmatched |-> <<>>]
    ELSE [match |-> out.results,
          unmatched |-> SelectSeq([j \in 1..Len(targets) |-> j],
                                  LAMBDA j : ~(\/ out.results[1].match.index = j
                                               \/ j \in flags))]

\* ------------------------------------------------------- planners (pure)

\* `input.splitThreshold || RESULTS_LIMIT`
mapSplittingThreshold(splitThreshold) ==
    IF splitThreshold = Undefined \/ splitThreshold = 0 THEN RESULTS_LIMIT
    ELSE splitThreshold

\* `input.maxLevel ?? 5`
maxLevelOf(maxLevel) == IF maxLevel = Undefined THEN DefaultMaxLevel ELSE maxLevel

\* `request.userData.splitCount ?? 0`
currentSplitCount(request) ==
    IF request.splitCount = Undefined THEN 0 ELSE request.splitCount

\* The mutant of shouldSplit: the level bound is tested with > instead of >=.
shouldSplitOffByOne(totalCount, request, inp) ==
    /\ totalCount >= mapSplittingThreshold(inp.splitThreshold)
    /\ ~(currentSplitCount(request) > maxLevelOf(inp.maxLevel))

\* _tryEnqueueMapSplits, lines 637-643: whether the map is split.
shouldSplit(totalCount, request, inp) ==
    /\ totalCount >= mapSplittingThreshold(inp.splitThreshold)
    /\ ~(currentSplitCount(request) >= maxLevelOf(inp.maxLevel))

\* `totalCount > 0 && zpids.size < this.globalContext.maxZpidsFound`
paginationTriggered(totalCount, size, mx) == totalCount > 0 /\ size < mx

\* The mutant of pageInRange: the loop stops one page early (i < pagesCount).
pageInRangeStrict(i, totalCount) ==
    i * LISTINGS_PER_PAGE <
        Min(totalCount + LISTINGS_PER_PAGE, PAGES_LIMIT * LISTINGS_PER_PAGE)

\* `i <= pagesCount` with pagesCount =
\* Math.min((totalCount / LISTINGS_PER_PAGE) + 1, PAGES_LIMIT).  The division
\* is a floating-point one and pagesCount need not be whole; both sides are
\* multiplied by LISTINGS_PER_PAGE here to stay in the integers.
pageInRange(i, totalCount) ==
    i * LISTINGS_PER_PAGE <=
        Min(totalCount + LISTINGS_PER_PAGE, PAGES_LIMIT * LISTINGS_PER_PAGE)

\* ------------------------------------------------------------------ state

VARIABLES
    input,          \* globalContext.input: maxItems, maxLevel, splitThreshold, zpids
    zpids,          \* globalContext.zpids, the set of extracted entity ids
    maxZpidsFound,  \* globalContext.maxZpidsFound
    matched,        \* the j with cleanStartUrls[j].matched set
    requestQueue,   \* the pending requests of the crawler's queue, head first
    queueKeys,      \* the uniqueKeys the queue has been given
    started,        \* handlePageFunction calls so far
    loc,            \* per worker: the pass it runs (its PageHandler, request, session)
    sinkCalls,      \* per id: extendOutputFunction calls so far
    fn              \* a pure function applied on its own (SpecFn)

vars == <<input, zpids, maxZpidsFound, matched, requestQueue, queueKeys,
          started, loc, sinkCalls, fn>>

\* The first tokens of the target addresses (cleanStartUrls) of a run.
TargetTokens == <<1, 2>>

\* A result record of a page: address token 1; it matches target 1 or none.
PageRecord(z, m) ==
    [zpid |-> z, tok |-> 1, rating |-> IF m THEN <<10, 8>> ELSE <<8, 8>>]

\* The result pages of the model: the cat1 list results and map results of
\* the search, and whether the page embeds them (the mobileSearchPageStore
\* script _getPageQs reads; `{}` without it).
Pages ==
    { [list |-> <<>>, map |-> <<>>, store |-> FALSE],
      [list |-> <<PageRecord(1, TRUE)>>, map |-> <<PageRecord(2, FALSE)>>,
       store |-> TRUE],
      [list |-> <<PageRecord(2, TRUE)>>, map |-> <<>>, store |-> FALSE],
      [list |-> <<>>, map |-> <<PageRecord(1, FALSE)>>, store |-> TRUE] }

NoPage == [list |-> <<>>, map |-> <<>>, store |-> FALSE]

\* What extractQueryStates can return for a page: the number of query states
\* (the categories of the search) and the summed total count.
Extraction(n, t) == [n |-> n, t |-> t]

Extractions(page) ==
    IF page = NoPage
    THEN {Extraction(0, 0), Extraction(1, 0), Extraction(1, 50)}
    ELSE IF page = [list |-> <<PageRecord(1, TRUE)>>, map |-> <<PageRecord(2, FALSE)>>,
       store |-> TRUE]
    THEN {Extraction(1, 1), Extraction(1, 50), Extraction(2, 50)}
    ELSE {Extraction(1, 50)}

\* The preloaded-data scripts of a detail page: one with a RenderQuery
\* property ("property"), or one without or that does not parse ("other").
DetailPages == { <<>>, <<"property">>, <<"other", "property">> }

\* ------------------------------------------------------------- requests

quickHash(qs) == <<"hash", qs[1], qs[2]>>

Request(label, zpid, pageNumber, splitCount, qs, uniqueKey) ==
    [label |-> label, zpid |-> zpid, pageNumber |-> pageNumber,
     splitCount |-> splitCount, qs |-> qs, uniqueKey |-> uniqueKey,
     retryCount |-> 0, noRetry |-> FALSE]

NoRequest == Request("NONE", Undefined, 0, Undefined, <<0, 0>>, <<"none", 0, 0>>)

\* The sub-rectangles of a query state, in the order they are enqueued.
splitQueryState(qs) == [k \in 1..SplitArity |-> <<qs[1] * SplitArity + k, qs[2]>>]

\* The request of lines 720-728.
SplitRequest(searchQueryState, splitCount) ==
    Request("QUERY", Undefined, 0, splitCount, searchQueryState,
            quickHash(searchQueryState))

\* The mutant of PaginationRequest: the request carries a splitCount.
PaginationRequestWithLevel(searchQueryState, i) ==
    Request("QUERY", Undefined, i, 0, searchQueryState,
            quickHash(searchQueryState))

\* The request of lines 685-693: the uniqueKey hashes the query state alone.
PaginationRequest(searchQueryState, i) ==
    Request("QUERY", Undefined, i, Undefined, searchQueryState,
            quickHash(searchQueryState))

\* The request of lines 322-329 and of lines 136-143.
DetailRequest(zpid) ==
    Request("DETAIL", zpid, 0, Undefined, <<0, 0>>, <<"zpid", zpid, 0>>)

\* The mutant of addRequests: forefront is ignored.
RECURSIVE addRequestsAtBack(_, _, _)
addRequestsAtBack(queue, keys, adds) ==
    IF adds = <<>> THEN [queue |-> queue, keys |-> keys]
    ELSE LET a == Head(adds)
         IN  IF a.request.uniqueKey \in keys
             THEN addRequestsAtBack(queue, keys, Tail(adds))
             ELSE addRequestsAtBack(Append(queue, a.request),
                                    keys \cup {a.request.uniqueKey}, Tail(adds))

\* requestQueue.addRequest: a request whose uniqueKey the queue knows is
\* dropped (wasAlreadyPresent); add is [request, forefront].
RECURSIVE addRequests(_, _, _)
addRequests(queue, keys, adds) ==
    IF adds = <<>> THEN [queue |-> queue, keys |-> keys]
    ELSE LET a == Head(adds)
         IN  IF a.request.uniqueKey \in keys
             THEN addRequests(queue, keys, Tail(adds))
             ELSE addRequests(IF a.forefront THEN <<a.request>> \o queue
                              ELSE Append(queue, a.request),
                              keys \cup {a.request.uniqueKey}, Tail(adds))

Add(request, forefront) == [request |-> request, forefront |-> forefront]

\* ------------------------------------------------------ shared predicates

\* The mutant of isOverItems: the cap is reached one item late.
isOverItemsLate(zs, inp) ==
    IF inp.maxItems > 0 THEN Cardinality(zs) > inp.maxItems ELSE FALSE

\* PageHandler.isOverItems (extra = 0); maxItems 0 stands for no number.
isOverItems(zs, inp) ==
    IF inp.maxItems > 0 THEN Cardinality(zs) >= inp.maxItems ELSE FALSE

\* extendOutputFunction (./initialization, not among the sources): the output
\* sink stores the id in the set unless the cap is reached.
sinkStores(z, zs, inp) == IF isOverItems(zs, inp) THEN zs ELSE zs \cup {z}

\* session.isUsable(): with maxErrorScore 0.5 one markBad makes it unusable.
isUsable(session) == session = "good"

markBad(session) == IF session = "good" THEN "bad" ELSE session

\* The mutant of processZpidEntry: an id of the set goes on to the query.
processZpidEntryNoDedup(z, zs, session, inp) ==
    IF isOverItems(zs, inp) THEN "over"
    ELSE IF z = MissingId \/ z = NonNumericId THEN "invalid"
    ELSE IF ~isUsable(session) THEN "unusable"
    ELSE "query"

\* processZpid, lines 271-301, up to its first await: where the call goes.
processZpidEntry(z, zs, session, inp) ==
    IF isOverItems(zs, inp) THEN "over"
    ELSE IF z = MissingId \/ z = NonNumericId THEN "invalid"
    ELSE IF z \in zs THEN "seen"
    ELSE IF ~isUsable(session) THEN "unusable"
    ELSE "query"

\* _validateQueryStatesResults, lines 603-617.
validateQueryStatesResults(resultsLength, totalCount) ==
    IF resultsLength = 0
    THEN IF totalCount > 0 THEN "throw" ELSE "false"
    ELSE "continue"

\* The mutant of getPageQsResults: map results, then list results.
getPageQsResultsMapFirst(page) == IF page.store THEN page.map \o page.list ELSE <<>>

\* __getPageQsResults: list results, then map results.
getPageQsResults(page) == IF page.store THEN page.list \o page.map ELSE <<>>

\* _mergeListResultsMapResults: per query state, map results then list results.
RECURSIVE mergeListResultsMapResults(_, _)
mergeListResultsMapResults(page, nQS) ==
    IF nQS = 0 THEN <<>>
    ELSE page.map \o page.list \o mergeListResultsMapResults(page, nQS - 1)

\* ------------------------------------------------------------ one pass
\* The locals of a pass.  pc is the await the pass is suspended at:
\*   "idle"           no pass
\*   "pageQs"         the loop of _processPageQsResults, before result idx
\*   "zpidsList"      the loop of handleZpidsPage, before id idx
\*   "extract"        the loop of _extractZpidsFromResults, before result idx
\*   "query"          `await queryZpid(page, zpid)` of processZpid
\*   "sleep"          `await sleep(100)` of processZpid
\*   "extractStates"  `await extractQueryStates(...)`
\*   "split"          `await requestQueue.addRequest` of _enqueueMapSplits
\*   "paginate"       `await requestQueue.addRequest` of _tryEnqueuePaginationPages
\*   "detailNext"     `await page.$eval('[id="__NEXT_DATA__"]', ...)`
\*   "detail"         the scripts loop of handleDetailPage, before script idx
\*   "done"           handlePageFunction has returned or thrown (status)
\* phase is the loop a processZpid call returns to.  The fields after status
\* record what the pass has done, for the properties:
\*   calls: the processZpid calls of the pass;
\*   entry, known, slept, fallbacks, queried, outcome: of the latest
\*     processZpid call: where it went, whether its id was in zpids at the
\*     call, whether it slept, the fallback requests it issued, whether it
\*     called queryZpid, and how the query ended ("ok", "failed");
\*   merged: the length of the merged results of the page;
\*   splitPlanned, splitsIssued, splitCut: of the latest query state: whether
\*     _tryEnqueueMapSplits chose to split, the sub-rectangles enqueued, and
\*     whether the loop of _enqueueMapSplits left by its isOverItems break;
\*   pagePlanned, sizeBelowMax, pagesIssued: of the latest query state:
\*     whether _tryEnqueuePaginationPages was called, whether zpids.size was
\*     below maxZpidsFound then, and the page numbers enqueued;
\*   followUps: the addRequest calls of the pass;
\*   reports: the posts of the pass to the report sink;
\*   attempted, paged: whether the pass has called queryZpid, and whether it
\*     has issued a pagination request;
\*   submitted: the ids the pass has called processZpid with, in order;
\*   found, sunk: of a DETAIL pass: the building zpid of __NEXT_DATA__
\*     (Undefined without __NEXT_DATA__, MissingId without a zpid in it), and
\*     the calls of extendOutputFunction that returned.

Idle ==
    [pc |-> "idle", request |-> NoRequest, session |-> "good",
     anyErrors |-> FALSE, phase |-> "", idx |-> 0, zpid |-> MissingId,
     page |-> NoPage, scripts |-> <<>>, noScriptsFound |-> TRUE,
     results |-> <<>>, totalCount |-> 0, nQS |-> 0, q |-> 0, k |-> 0, i |-> 0,
     status |-> "",
     calls |-> 0, entry |-> "", known |-> FALSE, slept |-> FALSE, fallbacks |-> 0,
     queried |-> FALSE, outcome |-> "",
     merged |-> 0, splitPlanned |-> FALSE, splitsIssued |-> <<>>, splitCut |-> FALSE,
     pagePlanned |-> FALSE, sizeBelowMax |-> FALSE, pagesIssued |-> {},
     followUps |-> 0, reports |-> [match |-> <<>>, unmatched |-> <<>>],
     attempted |-> FALSE, paged |-> FALSE, submitted |-> <<>>,
     found |-> Undefined, sunk |-> 0]

\* The result of running a pass up to its next await: its locals and the
\* addRequest calls it issued on the way.
Ran(l, adds) == [l |-> l, adds |-> adds]

\* handlePageFunction after the handler returned, lines 251-263.
Finish(l) ==
    IF l.anyErrors
    THEN [l EXCEPT !.pc = "done", !.status = "failed", !.session = "retired"]
    ELSE [l EXCEPT !.pc = "done", !.status = "ok"]

\* An exception that leaves handlePageFunction; retire: session.retire() first.
Throw(l, retire) ==
    [l EXCEPT !.pc = "done", !.status = "failed",
              !.session = IF retire THEN "retired" ELSE @]

\* The query state of category q of a request's viewport.
queryState(request, q) == <<request.qs[1], q>>

\* _tryEnqueuePaginationPages (lines 660-696) from its start to its first
\* addRequest, then the loop of _extractZpidsFromResults.
RunPagination(l0, zs, mx) ==
    LET l == [l0 EXCEPT !.pagePlanned = TRUE, !.pagesIssued = {},
                        !.sizeBelowMax = Cardinality(zs) < mx]
    IN  IF /\ paginationTriggered(l.totalCount, Cardinality(zs), mx)
           /\ pageInRange(2, l.totalCount)
        THEN Ran([l EXCEPT !.pc = "paginate", !.i = 3, !.pagesIssued = {2},
                           !.paged = TRUE, !.followUps = @ + 1],
                 <<Add(PaginationRequest(queryState(l.request, l.q), 2), FALSE)>>)
        ELSE Ran([l EXCEPT !.pc = "extract", !.phase = "extract", !.idx = 1], <<>>)

\* The mutant of RunSplits: the loop leaves the last sub-rectangle out.
RunSplitsShort(l, k, zs, mx, inp) ==
    IF k >= SplitArity THEN RunPagination(l, zs, mx)
    ELSE IF isOverItems(zs, inp)
    THEN RunPagination([l EXCEPT !.splitCut = TRUE], zs, mx)
    ELSE LET sc == currentSplitCount(l.request) + 1
             rq == SplitRequest(splitQueryState(queryState(l.request, l.q))[k], sc)
         IN  Ran([l EXCEPT !.pc = "split", !.k = k + 1,
                           !.splitsIssued = Append(@, [qs |-> rq.qs, splitCount |-> sc]),
                           !.followUps = @ + 1],
                 <<Add(rq, FALSE)>>)

\* The mutant of RunSplits: no isOverItems test in the loop.
RunSplitsNoCap(l, k, zs, mx, inp) ==
    IF k > SplitArity THEN RunPagination(l, zs, mx)
    ELSE LET sc == currentSplitCount(l.request) + 1
             rq == SplitRequest(splitQueryState(queryState(l.request, l.q))[k], sc)
         IN  Ran([l EXCEPT !.pc = "split", !.k = k + 1,
                           !.splitsIssued = Append(@, [qs |-> rq.qs, splitCount |-> sc]),
                           !.followUps = @ + 1],
                 <<Add(rq, FALSE)>>)

\* The mutant of RunSplits: the sub-rectangles keep the level of the request.
RunSplitsSameLevel(l, k, zs, mx, inp) ==
    IF k > SplitArity THEN RunPagination(l, zs, mx)
    ELSE IF isOverItems(zs, inp)
    THEN RunPagination([l EXCEPT !.splitCut = TRUE], zs, mx)
    ELSE LET sc == currentSplitCount(l.request)
             rq == SplitRequest(splitQueryState(queryState(l.request, l.q))[k], sc)
         IN  Ran([l EXCEPT !.pc = "split", !.k = k + 1,
                           !.splitsIssued = Append(@, [qs |-> rq.qs, splitCount |-> sc]),
                           !.followUps = @ + 1],
                 <<Add(rq, FALSE)>>)

\* The mutant of RunSplits: the split request is added with forefront.
RunSplitsForefront(l, k, zs, mx, inp) ==
    IF k > SplitArity THEN RunPagination(l, zs, mx)
    ELSE IF isOverItems(zs, inp)
    THEN RunPagination([l EXCEPT !.splitCut = TRUE], zs, mx)
    ELSE LET sc == currentSplitCount(l.request) + 1
             rq == SplitRequest(splitQueryState(queryState(l.request, l.q))[k], sc)
         IN  Ran([l EXCEPT !.pc = "split", !.k = k + 1,
                           !.splitsIssued = Append(@, [qs |-> rq.qs, splitCount |-> sc]),
                           !.followUps = @ + 1],
                 <<Add(rq, TRUE)>>)

\* _enqueueMapSplits (lines 703-730) before split k.
RunSplits(l, k, zs, mx, inp) ==
    IF k > SplitArity THEN RunPagination(l, zs, mx)
    ELSE IF isOverItems(zs, inp)
    THEN RunPagination([l EXCEPT !.splitCut = TRUE], zs, mx)
    ELSE LET sc == currentSplitCount(l.request) + 1
             rq == SplitRequest(splitQueryState(queryState(l.request, l.q))[k], sc)
         IN  Ran([l EXCEPT !.pc = "split", !.k = k + 1,
                           !.splitsIssued = Append(@, [qs |-> rq.qs, splitCount |-> sc]),
                           !.followUps = @ + 1],
                 <<Add(rq, FALSE)>>)

\* The mutant of RunQueryStates: no test of zpids.size against maxZpidsFound.
RunQueryStatesNoEarlyStop(l0, q, zs, mx, inp) ==
    LET l == [l0 EXCEPT !.q = q, !.splitPlanned = FALSE, !.splitsIssued = <<>>,
                        !.splitCut = FALSE, !.pagePlanned = FALSE,
                        !.sizeBelowMax = FALSE, !.pagesIssued = {}]
        currentPage == IF l.request.pageNumber = 0 THEN 1 ELSE l.request.pageNumber
    IN  IF q > l.nQS THEN Ran(Finish(l0), <<>>)
        ELSE IF currentPage = 1
             THEN IF shouldSplit(l.totalCount, l.request, inp)
                  THEN RunSplits([l EXCEPT !.splitPlanned = TRUE], 1, zs, mx, inp)
                  ELSE RunPagination(l, zs, mx)
             ELSE Ran([l EXCEPT !.pc = "extract", !.phase = "extract", !.idx = 1], <<>>)

\* The mutant of RunQueryStates: the extraction loop without the planners.
RunQueryStatesNoPlanners(l0, q, zs, mx, inp) ==
    LET l == [l0 EXCEPT !.q = q, !.splitPlanned = FALSE, !.splitsIssued = <<>>,
                        !.splitCut = FALSE, !.pagePlanned = FALSE,
                        !.sizeBelowMax = FALSE, !.pagesIssued = {}]
    IN  IF q > l.nQS THEN Ran(Finish(l0), <<>>)
        ELSE IF Cardinality(zs) >= mx THEN Ran(Finish(l0), <<>>)
        ELSE Ran([l EXCEPT !.pc = "extract", !.phase = "extract", !.idx = 1], <<>>)

\* The mutant of RunQueryStates: the planners run whatever the page number.
RunQueryStatesAnyPage(l0, q, zs, mx, inp) ==
    LET l == [l0 EXCEPT !.q = q, !.splitPlanned = FALSE, !.splitsIssued = <<>>,
                        !.splitCut = FALSE, !.pagePlanned = FALSE,
                        !.sizeBelowMax = FALSE, !.pagesIssued = {}]
    IN  IF q > l.nQS THEN Ran(Finish(l0), <<>>)
        ELSE IF Cardinality(zs) >= mx THEN Ran(Finish(l0), <<>>)
        ELSE IF shouldSplit(l.totalCount, l.request, inp)
             THEN RunSplits([l EXCEPT !.splitPlanned = TRUE], 1, zs, mx, inp)
             ELSE RunPagination(l, zs, mx)

\* The loop over queryStates of _processExtractedQueryStates (lines 561-576)
\* before query state q.
RunQueryStates(l0, q, zs, mx, inp) ==
    LET l == [l0 EXCEPT !.q = q, !.splitPlanned = FALSE, !.splitsIssued = <<>>,
                        !.splitCut = FALSE, !.pagePlanned = FALSE,
                        !.sizeBelowMax = FALSE, !.pagesIssued = {}]
        currentPage == IF l.request.pageNumber = 0 THEN 1 ELSE l.request.pageNumber
    IN  IF q > l.nQS THEN Ran(Finish(l0), <<>>)
        ELSE IF Cardinality(zs) >= mx THEN Ran(Finish(l0), <<>>)
        ELSE IF currentPage = 1
             THEN IF shouldSplit(l.totalCount, l.request, inp)
                  THEN RunSplits([l EXCEPT !.splitPlanned = TRUE], 1, zs, mx, inp)
                  ELSE RunPagination(l, zs, mx)
             ELSE Ran([l EXCEPT !.pc = "extract", !.phase = "extract", !.idx = 1], <<>>)

\* The sequence a loop runs over.
LoopItems(l, inp) ==
    CASE l.phase = "pageQs" -> [j \in 1..Len(getPageQsResults(l.page)) |->
                                    getPageQsResults(l.page)[j].zpid]
      [] l.phase = "zpidsList" -> inp.zpids
      [] l.phase = "extract" -> [j \in 1..Len(l.results) |-> l.results[j].zpid]

\* The end of the loop a processZpid call was made from.
LoopExit(l, zs, mx, inp) ==
    CASE l.phase = "pageQs" ->
            \* shouldContinue is still true: extractQueryStates is awaited
            Ran([l EXCEPT !.pc = "extractStates"], <<>>)
      [] l.phase = "zpidsList" -> Ran(Finish(l), <<>>)
      [] l.phase = "extract" -> RunQueryStates(l, l.q + 1, zs, mx, inp)

\* After processZpid returned for result idx: `if (this.isOverItems()) break`
\* in handleZpidsPage and in _extractZpidsFromResults, else the next result.
AfterProcessZpid(l, zs, mx, inp) ==
    IF l.phase \in {"zpidsList", "extract"} /\ isOverItems(zs, inp)
    THEN LoopExit(l, zs, mx, inp)
    ELSE Ran([l EXCEPT !.pc = l.phase, !.idx = @ + 1], <<>>)


\* The mutant of CatchProcessZpid: no isOverItems check in the catch block.
CatchProcessZpidNoCap(l, zs, inp) ==
    Ran([l EXCEPT !.pc = "sleep", !.slept = TRUE, !.anyErrors = TRUE,
                  !.session = markBad(@), !.fallbacks = @ + 1, !.followUps = @ + 1],
        <<Add(DetailRequest(l.zpid), TRUE)>>)

\* The catch block of processZpid (lines 308-332) for an error that is not
\* one of the two invalid-id errors, then the finally block: the pass sleeps.
CatchProcessZpid(l, zs, inp) ==
    IF isOverItems(zs, inp)
    THEN Ran([l EXCEPT !.pc = "sleep", !.slept = TRUE], <<>>)
    ELSE Ran([l EXCEPT !.pc = "sleep", !.slept = TRUE, !.anyErrors = TRUE,
                       !.session = markBad(@), !.fallbacks = @ + 1,
                       !.followUps = @ + 1],
             <<Add(DetailRequest(l.zpid), TRUE)>>)

\* The mutant of CallProcessZpid: an unusable session makes the call return
\* at once, like an id of the set.
CallProcessZpidSkipUnusable(l0, z, zs, mx, inp) ==
    LET e == processZpidEntry(z, zs, l0.session, inp)
        l == [l0 EXCEPT !.calls = @ + 1, !.submitted = Append(@, z),
                        !.zpid = z, !.entry = e, !.known = (z \in zs),
                        !.slept = FALSE, !.queried = FALSE, !.fallbacks = 0,
                        !.outcome = ""]
    IN  CASE e \in {"over", "invalid", "seen", "unusable"} ->
                AfterProcessZpid(l, zs, mx, inp)
          [] e = "query" -> Ran([l EXCEPT !.pc = "query", !.queried = TRUE,
                                        !.attempted = TRUE], <<>>)

\* processZpid(z, ...) called from the loop l.phase, up to its first await.
CallProcessZpid(l0, z, zs, mx, inp) ==
    LET e == processZpidEntry(z, zs, l0.session, inp)
        l == [l0 EXCEPT !.calls = @ + 1, !.submitted = Append(@, z),
                        !.zpid = z, !.entry = e, !.known = (z \in zs),
                        !.slept = FALSE, !.queried = FALSE, !.fallbacks = 0,
                        !.outcome = ""]
    IN  CASE e \in {"over", "invalid", "seen"} -> AfterProcessZpid(l, zs, mx, inp)
          [] e = "unusable" -> CatchProcessZpid(l, zs, inp)
          [] e = "query" -> Ran([l EXCEPT !.pc = "query", !.queried = TRUE,
                                        !.attempted = TRUE], <<>>)


\* One iteration of a loop over entities, before result idx.
LoopBody(l, zs, mx, inp) ==
    LET items == LoopItems(l, inp)
    IN  IF l.idx > Len(items) THEN LoopExit(l, zs, mx, inp)
        ELSE LET z == items[l.idx]
             IN  CASE l.phase = "zpidsList" -> CallProcessZpid(l, z, zs, mx, inp)
                   [] z = MissingId -> Ran([l EXCEPT !.idx = @ + 1], <<>>)
                   [] l.phase = "pageQs" /\ isOverItems(zs, inp) ->
                        \* shouldContinue = false; break
                        Ran(Finish(l), <<>>)
                   [] OTHER -> CallProcessZpid(l, z, zs, mx, inp)

\* `await sleep(100)` returned: back in the loop, up to the next await.
AfterSleep(l, zs, mx, inp) ==
    IF l.phase \in {"zpidsList", "extract"} /\ isOverItems(zs, inp)
    THEN LoopExit(l, zs, mx, inp)
    ELSE LoopBody([l EXCEPT !.pc = l.phase, !.idx = @ + 1], zs, mx, inp)

\* -------------------------------------------------------------- actions

\* A pass takes the result r of a run: its locals and its addRequest calls.
Takes(w, r) ==
    LET a == addRequests(requestQueue, queueKeys, r.adds)
    IN  /\ loc' = [loc EXCEPT ![w] = r.l]
        /\ requestQueue' = a.queue
        /\ queueKeys' = a.keys

\* The crawler hands the next request to handlePageFunction (main.js lines
\* 220-249): no response, cap reached, captcha, else the handler of the label.
StartPass(w) ==
    /\ loc[w].pc = "idle"
    /\ started < MaxPasses
    /\ requestQueue # <<>>
    /\ started' = started + 1
    /\ requestQueue' = Tail(requestQueue)
    /\ LET l == [Idle EXCEPT !.request = Head(requestQueue)]
       IN  \E nav \in {"ok", "noResponse", "captcha", "loadFails"} :
           \E page \in Pages, scripts \in DetailPages :
             /\ nav # "ok" => page = NoPage /\ scripts = <<>>
             /\ l.request.label # "QUERY" => page = NoPage /\ nav # "loadFails"
             /\ (l.request.label # "DETAIL" \/ l.request.zpid = Undefined)
                    => scripts = <<>>
             /\ loc' = [loc EXCEPT ![w] =
                  CASE nav = "noResponse" -> Throw(l, FALSE)
                    [] isOverItems(zpids, input) -> [l EXCEPT !.pc = "done", !.status = "ok"]
                    [] nav = "captcha" -> Throw(l, TRUE)
                    [] nav = "loadFails" -> Throw(l, TRUE)
                    [] l.request.label = "DETAIL" ->
                         IF l.request.zpid = Undefined
                         THEN [l EXCEPT !.pc = "detailNext"]
                         ELSE IF scripts = <<>> THEN Throw(l, TRUE)
                         ELSE [l EXCEPT !.pc = "detail", !.scripts = scripts, !.idx = 1]
                    [] l.request.label = "ZPIDS" ->
                         [l EXCEPT !.pc = "zpidsList", !.phase = "zpidsList", !.idx = 1]
                    [] OTHER ->
                         [l EXCEPT !.pc = "pageQs", !.phase = "pageQs", !.idx = 1,
                                   !.page = page]]
    /\ UNCHANGED <<input, zpids, maxZpidsFound, matched, queueKeys, sinkCalls, fn>>

\* One iteration of a loop over entities, up to the next await.
LoopStep(w) ==
    LET l == loc[w]
    IN  /\ l.pc \in {"pageQs", "zpidsList", "extract"}
        /\ Takes(w, LoopBody(l, zpids, maxZpidsFound, input))
        /\ UNCHANGED <<input, zpids, maxZpidsFound, matched, started, sinkCalls, fn>>

\* The mutant of QuerySucceeds: processZpid returns to its loop without the
\* sleep of the finally block.
QuerySucceedsNoSleep(w) ==
    LET l == loc[w]
    IN  /\ l.pc = "query"
        /\ sinkCalls' = [sinkCalls EXCEPT ![l.zpid] = @ + 1]
        /\ zpids' = sinkStores(l.zpid, zpids, input)
        /\ Takes(w, AfterSleep([l EXCEPT !.outcome = "ok"], zpids', maxZpidsFound,
                               input))
        /\ UNCHANGED <<input, maxZpidsFound, matched, started, fn>>

\* `await queryZpid(page, zpid)` returns and its payload goes to
\* extendOutputFunction (lines 300-307).
QuerySucceeds(w) ==
    LET l == loc[w]
    IN  /\ l.pc = "query"
        /\ sinkCalls' = [sinkCalls EXCEPT ![l.zpid] = @ + 1]
        /\ zpids' = sinkStores(l.zpid, zpids, input)
        /\ loc' = [loc EXCEPT ![w] = [l EXCEPT !.pc = "sleep", !.slept = TRUE,
                                                !.outcome = "ok"]]
        /\ UNCHANGED <<input, maxZpidsFound, matched, requestQueue, queueKeys,
                       started, fn>>

\* queryZpid or the parse of its answer throws (sink = FALSE), or
\* extendOutputFunction does (sink = TRUE): the catch block.
QueryFails(w) ==
    LET l == loc[w]
    IN  /\ l.pc = "query"
        /\ \E sink \in BOOLEAN :
             sinkCalls' = IF sink THEN [sinkCalls EXCEPT ![l.zpid] = @ + 1]
                          ELSE sinkCalls
        /\ Takes(w, CatchProcessZpid([l EXCEPT !.outcome = "failed"], zpids, input))
        /\ UNCHANGED <<input, zpids, maxZpidsFound, matched, started, fn>>

\* `await sleep(100)` returns: processZpid returns to its loop.
SleepReturns(w) ==
    /\ loc[w].pc = "sleep"
    /\ Takes(w, AfterSleep(loc[w], zpids, maxZpidsFound, input))
    /\ UNCHANGED <<input, zpids, maxZpidsFound, matched, started, sinkCalls, fn>>

\* `await extractQueryStates(...)` throws: the catch of
\* handleQueryAndSearchPage retires the session (lines 247-251).
ExtractStatesFails(w) ==
    /\ loc[w].pc = "extractStates"
    /\ loc' = [loc EXCEPT ![w] = Throw(loc[w], TRUE)]
    /\ UNCHANGED <<input, zpids, maxZpidsFound, matched, requestQueue, queueKeys,
                   started, sinkCalls, fn>>

\* `await extractQueryStates(...)` returns n query states with a summed
\* total count (lines 463-483); then _processExtractedQueryStates up to its
\* first await (lines 492-576).
ExtractStates(w) ==
    LET l0 == loc[w]
    IN  /\ l0.pc = "extractStates"
        /\ \E x \in Extractions(l0.page) :
             /\ LET n == x.n
                    t == x.t
                    mx == Max(t, maxZpidsFound)
                    merged == mergeListResultsMapResults(l0.page, n)
                    m == AddressMatcher(merged, TargetTokens)
                    l == [l0 EXCEPT !.nQS = n, !.totalCount = t,
                                    !.merged = Len(merged),
                                    !.reports = IF n = 0 THEN @
                                                ELSE Reports(m, TargetTokens,
                                                             matched \cup m.flagged)]
                    v == validateQueryStatesResults(Len(m.results), Len(m.results))
                IN  /\ maxZpidsFound' = mx
                    /\ matched' = IF n = 0 THEN matched ELSE matched \cup m.flagged
                    /\ Takes(w,
                         CASE n = 0 -> Ran(Finish(l), <<>>)
                           [] m.threw -> Ran(Throw(l, FALSE), <<>>)
                           [] v = "throw" -> Ran(Throw(l, TRUE), <<>>)
                           [] v = "false" -> Ran(Finish(l), <<>>)
                           [] OTHER -> RunQueryStates([l EXCEPT !.results = m.results],
                                                      1, zpids, mx, input))
        /\ UNCHANGED <<input, zpids, started, sinkCalls, fn>>

\* `await requestQueue.addRequest` of _enqueueMapSplits returns.
SplitStep(w) ==
    /\ loc[w].pc = "split"
    /\ Takes(w, RunSplits(loc[w], loc[w].k, zpids, maxZpidsFound, input))
    /\ UNCHANGED <<input, zpids, maxZpidsFound, matched, started, sinkCalls, fn>>

\* `await requestQueue.addRequest` of _tryEnqueuePaginationPages returns:
\* the loop of lines 674-694 before page i.
PaginateStep(w) ==
    LET l == loc[w]
    IN  /\ l.pc = "paginate"
        /\ Takes(w,
             IF pageInRange(l.i, l.totalCount)
             THEN Ran([l EXCEPT !.i = @ + 1, !.pagesIssued = @ \cup {l.i},
                                !.paged = TRUE, !.followUps = @ + 1],
                      <<Add(PaginationRequest(queryState(l.request, l.q), l.i), FALSE)>>)
             ELSE Ran([l EXCEPT !.pc = "extract", !.phase = "extract", !.idx = 1], <<>>))
        /\ UNCHANGED <<input, zpids, maxZpidsFound, matched, started, sinkCalls, fn>>

\* handleDetailPage for a request without a numeric zpid (lines 123-154):
\* the page's __NEXT_DATA__ is missing, or gives a building zpid, or none.
DetailNext(w) ==
    LET l == loc[w]
    IN  /\ l.pc = "detailNext"
        /\ \E z \in ValidIds \cup {MissingId, Undefined} :
             Takes(w,
               CASE z = Undefined -> Ran(Throw(l, FALSE), <<>>)
                 [] z = MissingId ->
                      Ran(Throw([l EXCEPT !.request.noRetry = TRUE, !.found = z],
                                FALSE), <<>>)
                 [] OTHER -> Ran(Finish([l EXCEPT !.followUps = @ + 1, !.found = z]),
                                 <<Add(DetailRequest(z), TRUE)>>))
        /\ UNCHANGED <<input, zpids, maxZpidsFound, matched, started, sinkCalls, fn>>

\* The mutant of DetailStep: noScriptsFound is cleared before the call of
\* extendOutputFunction, so a call that throws counts as an extraction.
DetailStepCountsFailure(w) ==
    LET l == loc[w]
    IN  /\ l.pc = "detail"
        /\ \E ok \in BOOLEAN :
             LET sink == l.idx <= Len(l.scripts) /\ l.scripts[l.idx] = "property"
             IN  /\ ~sink => ok
                 /\ sinkCalls' = IF sink
                                 THEN [sinkCalls EXCEPT ![l.request.zpid] = @ + 1]
                                 ELSE sinkCalls
                 /\ zpids' = IF sink /\ ok
                             THEN sinkStores(l.request.zpid, zpids, input)
                             ELSE zpids
                 /\ loc' = [loc EXCEPT ![w] =
                      IF l.idx > Len(l.scripts)
                      THEN IF l.noScriptsFound THEN Throw(l, FALSE) ELSE Finish(l)
                      ELSE [l EXCEPT !.idx = @ + 1,
                                     !.sunk = IF sink /\ ok THEN @ + 1 ELSE @,
                                     !.noScriptsFound = IF sink THEN FALSE ELSE @]]
        /\ UNCHANGED <<input, maxZpidsFound, matched, requestQueue, queueKeys,
                       started, fn>>

\* One script of the loop of handleDetailPage (lines 168-195); ok: whether
\* extendOutputFunction returns or throws (the throw is caught and logged).
DetailStep(w) ==
    LET l == loc[w]
    IN  /\ l.pc = "detail"
        /\ \E ok \in BOOLEAN :
             LET sink == l.idx <= Len(l.scripts) /\ l.scripts[l.idx] = "property"
             IN  /\ ~sink => ok
                 /\ sinkCalls' = IF sink
                                 THEN [sinkCalls EXCEPT ![l.request.zpid] = @ + 1]
                                 ELSE sinkCalls
                 /\ zpids' = IF sink /\ ok
                             THEN sinkStores(l.request.zpid, zpids, input)
                             ELSE zpids
                 /\ loc' = [loc EXCEPT ![w] =
                      IF l.idx > Len(l.scripts)
                      THEN IF l.noScriptsFound THEN Throw(l, FALSE) ELSE Finish(l)
                      ELSE [l EXCEPT !.idx = @ + 1,
                                     !.sunk = IF sink /\ ok THEN @ + 1 ELSE @,
                                     !.noScriptsFound = IF sink /\ ok THEN FALSE ELSE @]]
        /\ UNCHANGED <<input, maxZpidsFound, matched, requestQueue, queueKeys,
                       started, fn>>

\* The crawler after handlePageFunction: a failed request is reclaimed for
\* another try unless noRetry is set or its retries are used up (main.js
\* line 154); the worker is free again.
EndPass(w) ==
    LET l == loc[w]
    IN  /\ l.pc = "done"
        /\ requestQueue' =
             IF /\ l.status = "failed"
                /\ ~l.request.noRetry
                /\ l.request.retryCount < MaxRequestRetries
             THEN Append(requestQueue, [l.request EXCEPT !.retryCount = @ + 1])
             ELSE requestQueue
        /\ loc' = [loc EXCEPT ![w] = Idle]
        /\ UNCHANGED <<input, zpids, maxZpidsFound, matched, queueKeys, started,
                       sinkCalls, fn>>

\* ------------------------------------------------------------- the run

\* input.zpids of a run: a missing id, a non-numeric one, and two valid ones.
InputZpids == <<MissingId, NonNumericId, 1, 2>>

Input(maxItems, maxLevel, splitThreshold) ==
    [maxItems |-> maxItems, maxLevel |-> maxLevel,
     splitThreshold |-> splitThreshold, zpids |-> InputZpids]

\* The configurations of the model: with and without an item cap, maxLevel
\* and splitThreshold given or left to their defaults.
Inputs ==
    { Input(1, 1, 50), Input(0, Undefined, 50), Input(0, 1, Undefined) }

\* Requests a queue can hold when a run (re)starts: start URLs, and the
\* follow-ups an earlier part of the run left in the persisted queue.  The
\* search of the whole map is the start URL (no splitCount) when maxLevel is
\* 1, and else a sub-rectangle one level below maxLevel, so that the passes
\* of a behaviour reach maxLevel.
StartRequests(inp) ==
    { IF maxLevelOf(inp.maxLevel) = 1
      THEN Request("QUERY", Undefined, 0, Undefined, <<0, 0>>, <<"start", 0, 0>>)
      ELSE SplitRequest(<<0, 0>>, maxLevelOf(inp.maxLevel) - 1),
      SplitRequest(<<1, 1>>, maxLevelOf(inp.maxLevel)),
      PaginationRequest(<<2, 1>>, 2),
      Request("ZPIDS", Undefined, 0, Undefined, <<0, 0>>, <<"zpids", 0, 0>>),
      DetailRequest(1),
      Request("DETAIL", Undefined, 0, Undefined, <<0, 0>>, <<"url", 0, 0>>) }

\* The queue of a (re)started run holds one of them, or the fallback request
\* of an id and behind it a start URL of a building of that id; the second
\* worker takes the follow-ups and retries the first pass enqueues while it
\* runs.
StartQueues(inp) ==
    { <<r>> : r \in StartRequests(inp) }
      \cup { <<DetailRequest(1),
               Request("DETAIL", Undefined, 0, Undefined, <<0, 0>>, <<"url", 0, 0>>)>> }

NoFn == [op |-> "none"]

Init ==
    /\ input \in Inputs
    /\ zpids = {}
    /\ maxZpidsFound = 0
    /\ matched = {}
    /\ requestQueue \in StartQueues(input)
    /\ queueKeys = {requestQueue[j].uniqueKey : j \in 1..Len(requestQueue)}
    /\ started = 0
    /\ loc = [w \in Workers |-> Idle]
    /\ sinkCalls = [z \in ValidIds |-> 0]
    /\ fn = NoFn

Next ==
    \E w \in Workers :
        \/ StartPass(w)
        \/ LoopStep(w)
        \/ QuerySucceeds(w)
        \/ QueryFails(w)
        \/ SleepReturns(w)
        \/ ExtractStatesFails(w)
        \/ ExtractStates(w)
        \/ SplitStep(w)
        \/ PaginateStep(w)
        \/ DetailNext(w)
        \/ DetailStep(w)
        \/ EndPass(w)

Spec == Init /\ [][Next]_vars

\* ------------------------------------------- pure functions on their own
\* SpecFn applies the address matcher and the pagination loop to inputs
\* drawn from bounded sets; the passes of Spec run the same operators.

NoOut == [threw |-> FALSE, results |-> <<>>, flagged |-> {}]

NoReports == [match |-> <<>>, unmatched |-> <<>>]

FnCall(op, results, targets, totalCount, size, mx) ==
    [op |-> op, results |-> results, targets |-> targets,
     totalCount |-> totalCount, size |-> size, max |-> mx,
     i |-> 2, pages |-> {}, done |-> FALSE, out |-> NoOut, reports |-> NoReports]

\* The merged results of a page, from their first tokens and their ratings
\* against the targets: result i has zpid i.
FnResults(rs) ==
    [i \in 1..Len(rs) |-> [zpid |-> i, tok |-> rs[i].tok, rating |-> rs[i].rating]]

\* The matcher on up to MaxResults results and up to MaxTargets targets.
\* Tokens are compared for equality only: the first target's is taken to be 1.
IsMatchCall(f) ==
    \E ts \in SeqsUpTo(Tokens, MaxTargets), n \in 0..MaxResults :
        \E rs \in [1..n -> [tok : Tokens, rating : [1..Len(ts) -> Ratings]]] :
            /\ ts # <<>> => ts[1] = 1
            /\ f = FnCall("match", FnResults(rs), ts, 0, 0, 0)

\* Totals around the multiples of LISTINGS_PER_PAGE and around the total at
\* which PAGES_LIMIT starts to clamp.
PlannerTotals == {0, 1, 39, 40, 41, 79, 80, 81, 120, 759, 760, 761, 800, 1000}

\* The pagination planner on a total, with zpids.size below maxZpidsFound
\* or not.
IsPaginationCall(f) ==
    \E t \in PlannerTotals, sz \in {0, 1}, mx \in {1, 1000} :
        f = FnCall("paginate", <<>>, <<>>, t, sz, mx)

\* Lines 497-537 for one page.
FnMatch ==
    /\ fn.op = "match"
    /\ ~fn.done
    /\ LET out == AddressMatcher(fn.results, fn.targets)
       IN  /\ matched' = matched \cup out.flagged
           /\ fn' = [fn EXCEPT !.out = out, !.done = TRUE,
                               !.reports = Reports(out, fn.targets, matched')]
    /\ UNCHANGED <<input, zpids, maxZpidsFound, requestQueue, queueKeys,
                   started, loc, sinkCalls>>

\* _tryEnqueuePaginationPages, lines 660-696: one addRequest of its loop, or
\* its end.
FnPaginate ==
    /\ fn.op = "paginate"
    /\ ~fn.done
    /\ IF /\ paginationTriggered(fn.totalCount, fn.size, fn.max)
          /\ pageInRange(fn.i, fn.totalCount)
       THEN LET added == addRequests(requestQueue, queueKeys,
                                     <<Add(PaginationRequest(<<0, 1>>, fn.i), FALSE)>>)
            IN  /\ fn' = [fn EXCEPT !.pages = @ \cup {fn.i}, !.i = @ + 1]
                /\ requestQueue' = added.queue
                /\ queueKeys' = added.keys
       ELSE /\ fn' = [fn EXCEPT !.done = TRUE]
            /\ UNCHANGED <<requestQueue, queueKeys>>
    /\ UNCHANGED <<input, zpids, maxZpidsFound, matched, started, loc, sinkCalls>>

InitFn ==
    /\ input = Input(0, Undefined, Undefined)
    /\ zpids = {}
    /\ maxZpidsFound = 0
    /\ matched = {}
    /\ requestQueue = <<>>
    /\ queueKeys = {}
    /\ started = 0
    /\ loc = [w \in Workers |-> Idle]
    /\ sinkCalls = [z \in ValidIds |-> 0]
    /\ IsMatchCall(fn) \/ IsPaginationCall(fn)

NextFn == FnMatch \/ FnPaginate

SpecFn == InitFn /\ [][NextFn]_vars

\* ------------------------------------------------------------ properties

\* The run-level cap is reached: maxItems is a positive number and zpids
\* holds at least that many ids.
CapReached == input.maxItems > 0 /\ Cardinality(zpids) >= input.maxItems

\* C1, as stated: for every entity id, over every interleaving of passes
\* (processZpid calls of result pages and of the id list, fallback DETAIL
\* passes), the output sink is invoked at most once.
C1_SinkAtMostOnce == \A z \in ValidIds : sinkCalls[z] <= 1

\* C2: when maxItems is positive, no pass starts a queryZpid call in a state
\* where zpids.size >= maxItems, whichever loop the entity comes from.
C2_NoQueryAtCap ==
    [][\A w \in Workers :
         (loc[w].pc # "query" /\ loc'[w].pc = "query") => ~CapReached]_vars

\* A processZpid call for a valid id returned at its first check because the
\* cap was reached, with no query.
C2_Witness ==
    \E w \in Workers :
        /\ loc[w].entry = "over"
        /\ loc[w].zpid \in ValidIds
        /\ ~loc[w].queried
        /\ CapReached

\* C3, as stated: if the cap is reached while an entity's query is in
\* flight, the return of the query does not reach the output sink.
C3_NoSinkAfterCap ==
    [][\A w \in Workers :
         (loc[w].pc = "query" /\ loc'[w].pc # "query" /\ CapReached)
            => sinkCalls' = sinkCalls]_vars

\* C3, amended: after the query the cap is checked on the failure path only.
\* A query that returns has its payload handed to the output sink whether or
\* not the cap was reached meanwhile; a failed attempt enqueues a fallback
\* request, flags the batch and degrades the session exactly when the cap is
\* not reached, and does none of the three when it is.
C3_CapCheckedOnFailureOnly ==
    [][\A w \in Workers :
         (loc[w].pc = "query" /\ loc'[w].pc # "query") =>
            /\ loc'[w].outcome = "ok" =>
                  sinkCalls'[loc[w].zpid] = sinkCalls[loc[w].zpid] + 1
            /\ (loc'[w].outcome = "failed" /\ CapReached) =>
                  /\ requestQueue' = requestQueue
                  /\ loc'[w].fallbacks = 0
                  /\ loc'[w].anyErrors = loc[w].anyErrors
                  /\ loc'[w].session = loc[w].session
            /\ (loc'[w].outcome = "failed" /\ ~CapReached) =>
                  /\ loc'[w].fallbacks = 1
                  /\ DetailRequest(loc[w].zpid).uniqueKey \in queueKeys'
                  /\ loc'[w].anyErrors
                  /\ loc'[w].session # "good"]_vars

\* An attempt failed after the cap was reached while its query was in
\* flight, and left no fallback.
C3_Witness ==
    \E w \in Workers :
        /\ loc[w].pc = "sleep"
        /\ loc[w].outcome = "failed"
        /\ loc[w].fallbacks = 0
        /\ ~loc[w].anyErrors
        /\ CapReached

\* C4: every request ever enqueued or handled carries a split level no
\* greater than maxLevel (5 when not configured), and a pass whose request is
\* at level >= maxLevel enqueues no sub-rectangle, whatever the total.
C4_SplitLevelBounded ==
    LET maxLevel == maxLevelOf(input.maxLevel)
    IN  /\ \A j \in 1..Len(requestQueue) :
              currentSplitCount(requestQueue[j]) <= maxLevel
        /\ \A w \in Workers :
              /\ currentSplitCount(loc[w].request) <= maxLevel
              /\ \A j \in 1..Len(loc[w].splitsIssued) :
                    loc[w].splitsIssued[j].splitCount <= maxLevel
              /\ currentSplitCount(loc[w].request) >= maxLevel =>
                    ~loc[w].splitPlanned /\ loc[w].splitsIssued = <<>>

\* A first-page pass at level maxLevel with a total at the threshold went
\* through both planners and enqueued no sub-rectangle.
C4_Witness ==
    \E w \in Workers :
        /\ loc[w].pagePlanned
        /\ currentSplitCount(loc[w].request) >= maxLevelOf(input.maxLevel)
        /\ loc[w].totalCount >= mapSplittingThreshold(input.splitThreshold)
        /\ loc[w].splitsIssued = <<>>

\* The sub-rectangles the latest query state of a pass is partitioned into.
SplitChildren(l) == splitQueryState(queryState(l.request, l.q))

\* A pass that handled the first page of a search, merged results and found
\* the match of the page among them.
FirstPageWithResults(l) ==
    /\ l.request.label = "QUERY"
    /\ l.request.pageNumber \in {0, 1}
    /\ l.nQS >= 1
    /\ l.merged > 0
    /\ l.results # <<>>

CeilPages(totalCount) == (totalCount + LISTINGS_PER_PAGE - 1) \div LISTINGS_PER_PAGE

\* C6, as stated: for a total above zero, with zpids.size below
\* maxZpidsFound, the pages enqueued are exactly
\* 2 .. min(ceil(totalCount / 40) + 1, PAGES_LIMIT).
C6_PagesCeil ==
    (fn.op = "paginate" /\ fn.done /\ fn.totalCount > 0 /\ fn.size < fn.max)
        => fn.pages = 2..Min(CeilPages(fn.totalCount) + 1, PAGES_LIMIT)

\* C6, amended: for a total above zero, with zpids.size below maxZpidsFound,
\* the pages enqueued are exactly
\* 2 .. min(floor(totalCount / 40) + 1, PAGES_LIMIT), none when that is
\* below 2; page 1 is never enqueued, and nothing is enqueued otherwise.
C6_PagesFloor ==
    (fn.op = "paginate" /\ fn.done)
        => fn.pages = IF fn.totalCount > 0 /\ fn.size < fn.max
                      THEN 2..Min((fn.totalCount \div LISTINGS_PER_PAGE) + 1, PAGES_LIMIT)
                      ELSE {}

\* The pagination loop has ended for a total that is not a multiple of 40,
\* with pages enqueued.
C6_Witness ==
    /\ fn.op = "paginate"
    /\ fn.done
    /\ fn.size < fn.max
    /\ fn.totalCount % LISTINGS_PER_PAGE # 0
    /\ fn.pages # {}

\* C7: a processZpid call whose id is missing, is not numeric or is already
\* in zpids returns with no sleep, no fallback request, no queryZpid call, the
\* batch not flagged and the session not degraded (the session changes in
\* the step of such a call only where handlePageFunction ends).
C7_FastSkip ==
    [][\A w \in Workers :
         LET l == loc'[w]
         IN  ( /\ l.calls = loc[w].calls + 1
               /\ l.zpid \in {MissingId, NonNumericId} \/ l.known ) =>
               /\ ~l.slept
               /\ ~l.queried
               /\ l.fallbacks = 0
               /\ l.pc \notin {"query", "sleep"}
               /\ l.anyErrors = loc[w].anyErrors
               /\ l.session # loc[w].session => l.pc = "done"
               /\ DetailRequest(l.zpid).uniqueKey \in queueKeys' =>
                     DetailRequest(l.zpid).uniqueKey \in queueKeys]_vars

\* A processZpid call returned because its id was already in zpids.
C7_Witness ==
    \E w \in Workers : loc[w].entry = "seen" /\ loc[w].known /\ ~loc[w].slept

\* C8, as stated: a pass whose page merges to no result while the reported
\* total is positive retires the session and fails.
C8_EmptyWithTotalRetires ==
    \A w \in Workers :
        ( /\ loc[w].pc = "done"
          /\ loc[w].request.label = "QUERY"
          /\ loc[w].nQS >= 1
          /\ loc[w].merged = 0
          /\ loc[w].totalCount > 0 )
        => loc[w].status = "failed" /\ loc[w].session = "retired"

\* C9, as stated: a pass whose page yields no result with a reported total
\* of zero ends normally: no error, the session not retired, no follow-up.
C9_GenuineZeroEndsNormally ==
    \A w \in Workers :
        ( /\ loc[w].pc = "done"
          /\ loc[w].request.label = "QUERY"
          /\ loc[w].nQS >= 1
          /\ loc[w].merged = 0
          /\ loc[w].totalCount = 0 )
        => /\ loc[w].status = "ok"
           /\ loc[w].session # "retired"
           /\ loc[w].followUps = 0

\* The reference of the address match selection.
\* The targets a result can be matched to.
Candidates(r, targets) ==
    { j \in 1..Len(targets) : r.rating[j] >= MatchThreshold /\ targets[j] = r.tok }

\* The greatest rating of a result over its candidates.
BestRating(r, targets) ==
    CHOOSE x \in {r.rating[j] : j \in Candidates(r, targets)} :
        \A j \in Candidates(r, targets) : r.rating[j] <= x

BestCandidates(r, targets) ==
    { j \in Candidates(r, targets) : r.rating[j] = BestRating(r, targets) }

SetMin(S) == CHOOSE x \in S : \A y \in S : x <= y
SetMax(S) == CHOOSE x \in S : \A y \in S : y <= x

\* The results that have a candidate, and the best-scoring ones of them.
Matched(results, targets) ==
    { i \in 1..Len(results) : Candidates(results[i], targets) # {} }

BestMatched(results, targets) ==
    { i \in Matched(results, targets) :
        \A k \in Matched(results, targets) :
            BestRating(results[k], targets) <= BestRating(results[i], targets) }

UnmatchedPosts(reports, j) ==
    Cardinality({k \in 1..Len(reports.unmatched) : reports.unmatched[k] = j})

\* C11, as stated: on every page handled the report sink receives the best
\* match, if there is one, and exactly one "no detail match" record for
\* every target that is not the target of that match: every target is
\* reported exactly once, as matched or as unmatched.
C11_EveryTargetReportedOnce ==
    (fn.op = "match" /\ fn.done) =>
        LET rs == fn.results
            ts == fn.targets
            covered == {fn.reports.match[k].match.index : k \in 1..Len(fn.reports.match)}
        IN  /\ Len(fn.reports.match) = IF Matched(rs, ts) = {} THEN 0 ELSE 1
            /\ \A k \in 1..Len(fn.reports.match) :
                  fn.reports.match[k].zpid \in BestMatched(rs, ts)
            /\ \A j \in 1..Len(ts) :
                  UnmatchedPosts(fn.reports, j) = IF j \in covered THEN 0 ELSE 1

\* A step of worker w in which it calls processZpid for a valid id that is
\* not in zpids, with the cap not reached and its session not usable.
CallsWithUnusableSession(w) ==
    /\ loc'[w].calls = loc[w].calls + 1
    /\ loc'[w].zpid \in ValidIds
    /\ loc'[w].zpid \notin zpids
    /\ ~CapReached
    /\ loc[w].pc # "idle"
    /\ ~isUsable(loc[w].session)

\* C12, as stated: when the session is unusable at an attempt for a valid id
\* that is not in zpids, queryZpid is not called and no fallback request is
\* enqueued.
C12_UnusableNoFallback ==
    [][\A w \in Workers :
         CallsWithUnusableSession(w) =>
            /\ ~loc'[w].queried
            /\ loc'[w].fallbacks = 0
            /\ DetailRequest(loc'[w].zpid).uniqueKey \in queueKeys' =>
                  DetailRequest(loc'[w].zpid).uniqueKey \in queueKeys]_vars

\* C12, amended: when the session is unusable at an attempt for a valid id
\* that is not in zpids, queryZpid is not called and the attempt is handled
\* as a failed extraction: the fallback DETAIL request of the id is given
\* to the queue, the batch is flagged, the session is marked bad and the
\* pacing sleep is taken; processZpid returns to its loop, and the pass
\* fails only at its end, because of the flag.
C12_UnusableTakesFallback ==
    [][\A w \in Workers :
         CallsWithUnusableSession(w) =>
            /\ ~loc'[w].queried
            /\ loc'[w].pc = "sleep"
            /\ loc'[w].slept
            /\ loc'[w].fallbacks = 1
            /\ DetailRequest(loc'[w].zpid).uniqueKey \in queueKeys'
            /\ loc'[w].anyErrors
            /\ ~isUsable(loc'[w].session)]_vars

\* An attempt found the session unusable and left a fallback request.
C12_Witness ==
    \E w \in Workers :
        /\ loc[w].entry = "unusable"
        /\ loc[w].zpid \in ValidIds
        /\ ~loc[w].queried
        /\ loc[w].fallbacks = 1
        /\ loc[w].pc = "sleep"

\* A step of worker w in which its query, or the output sink on its
\* payload, fails.
AttemptFails(w) ==
    /\ loc[w].pc = "query"
    /\ loc'[w].pc # "query"
    /\ loc'[w].outcome = "failed"

\* C13, as stated: whenever the query or the forwarding of its payload fails
\* for a valid id, one fallback DETAIL request keyed by the id is enqueued
\* at the head of the queue, the batch is flagged and the session is marked
\* bad.
C13_FailureEnqueuesFallback ==
    [][\A w \in Workers :
         AttemptFails(w) =>
            /\ loc'[w].fallbacks = 1
            /\ requestQueue' # <<>>
            /\ DetailRequest(loc[w].zpid) \in
                  {requestQueue'[j] : j \in 1..Len(requestQueue')}
            /\ loc'[w].anyErrors
            /\ loc'[w].session # "good"]_vars

\* C13, amended: when the query or the forwarding of its payload fails and
\* the cap is not reached, addRequest is called once, with forefront, for
\* the DETAIL request keyed by the id: the request goes to the head of the
\* queue unless the queue knows its key already, and then the queue is left
\* as it is; the batch is flagged and the session is marked bad.  When the
\* cap is reached the queue, the flag and the session are left as they are.
C13_FallbackUnlessCapOrKnown ==
    [][\A w \in Workers :
         AttemptFails(w) =>
            LET rq == DetailRequest(loc[w].zpid)
            IN  IF CapReached
                THEN /\ requestQueue' = requestQueue
                     /\ queueKeys' = queueKeys
                     /\ loc'[w].fallbacks = 0
                     /\ loc'[w].anyErrors = loc[w].anyErrors
                     /\ loc'[w].session = loc[w].session
                ELSE /\ loc'[w].fallbacks = 1
                     /\ requestQueue' = IF rq.uniqueKey \in queueKeys
                                        THEN requestQueue
                                        ELSE <<rq>> \o requestQueue
                     /\ queueKeys' = queueKeys \cup {rq.uniqueKey}
                     /\ loc'[w].anyErrors
                     /\ loc'[w].session = markBad(loc[w].session)]_vars

\* A failed attempt put its fallback request at the head of a queue that
\* held other requests.
C13_Witness ==
    \E w \in Workers :
        /\ loc[w].pc = "sleep"
        /\ loc[w].outcome = "failed"
        /\ loc[w].fallbacks = 1
        /\ Len(requestQueue) >= 2
        /\ requestQueue[1] = DetailRequest(loc[w].zpid)

\* A step of worker w in which it calls processZpid with a valid id that is
\* not in zpids.
CallsProcessZpid(w) ==
    /\ loc'[w].calls = loc[w].calls + 1
    /\ loc[w].pc # "idle"
    /\ loc'[w].zpid \in ValidIds
    /\ loc'[w].zpid \notin zpids

\* A step of worker w that ends its query, with or without an error.
QueryEnds(w) ==
    /\ loc[w].pc = "query"
    /\ loc'[w] # loc[w]

\* C14, as stated: every processZpid call whose id is neither missing, nor
\* non-numeric, nor in zpids sleeps before it returns, whether its attempt
\* succeeds or fails.
C14_SleepsUnlessFastSkip ==
    [][\A w \in Workers :
         /\ CallsProcessZpid(w) => loc'[w].pc \in {"query", "sleep"}
         /\ QueryEnds(w) => loc'[w].pc = "sleep" /\ loc'[w].slept]_vars

\* C14, amended: every processZpid call whose id is neither missing, nor
\* non-numeric, nor in zpids, and that does not find the cap reached at its
\* entry, sleeps before it returns, whether its attempt succeeds or fails;
\* a call that finds the cap reached at its entry returns without sleeping.
C14_SleepsUnlessFastSkipOrCap ==
    [][\A w \in Workers :
         /\ CallsProcessZpid(w) =>
               IF CapReached
               THEN loc'[w].pc \notin {"query", "sleep"} /\ ~loc'[w].slept
               ELSE loc'[w].pc \in {"query", "sleep"}
         /\ QueryEnds(w) => loc'[w].pc = "sleep" /\ loc'[w].slept]_vars

\* A call sleeps after its query returned and its payload was forwarded.
C14_Witness ==
    \E w \in Workers :
        /\ loc[w].pc = "sleep"
        /\ loc[w].slept
        /\ loc[w].queried
        /\ loc[w].outcome = "ok"

\* C15: in every pass in which anyErrors was set, the session is retired
\* when the pass ends, by a normal return or by an exception.
C15_ErrorsRetireSession ==
    \A w \in Workers :
        (loc[w].pc = "done" /\ loc[w].anyErrors) => loc[w].session = "retired"

\* A step of worker w in which it gives a split request to the queue.
IssuesSplit(w) ==
    /\ loc'[w] # loc[w]
    /\ loc'[w].pc = "split"

\* The split request worker w issued last.
LastSplit(l) ==
    LET s == l.splitsIssued[Len(l.splitsIssued)]
    IN  SplitRequest(s.qs, s.splitCount)

\* C16, as stated: each split request is inserted with priority, at the head
\* of the queue, before the requests the queue holds already.
C16_SplitsAtHead ==
    [][\A w \in Workers :
         IssuesSplit(w) =>
            LET rq == LastSplit(loc'[w])
            IN  requestQueue' = IF rq.uniqueKey \in queueKeys
                                THEN requestQueue
                                ELSE <<rq>> \o requestQueue]_vars

\* C16, amended: each split request is added without priority, at the back
\* of the queue, behind the requests the queue holds already (and not at
\* all when the queue knows its key).
C16_SplitsAtBack ==
    [][\A w \in Workers :
         IssuesSplit(w) =>
            LET rq == LastSplit(loc'[w])
            IN  /\ requestQueue' = IF rq.uniqueKey \in queueKeys
                                   THEN requestQueue
                                   ELSE Append(requestQueue, rq)
                /\ queueKeys' = queueKeys \cup {rq.uniqueKey}]_vars

\* A split request is the last of a queue that holds other requests.
C16_Witness ==
    \E w \in Workers :
        /\ loc[w].pc = "split"
        /\ Len(requestQueue) >= 2
        /\ requestQueue[Len(requestQueue)] = LastSplit(loc[w])

\* A step of worker w in which it gives a pagination request to the queue.
IssuesPage(w) ==
    /\ loc'[w] # loc[w]
    /\ loc'[w].pc = "paginate"

\* The requests a step put at the back of the queue.
Enqueued ==
    {requestQueue'[j] : j \in (Len(requestQueue) + 1)..Len(requestQueue')}

\* C17, as stated: a pagination request carries the split level of the
\* request of the pass that issued it, and a split request that level plus
\* one.
C17_PagesKeepLevel ==
    [][\A w \in Workers :
         /\ IssuesPage(w) =>
               \A r \in Enqueued :
                  currentSplitCount(r) = currentSplitCount(loc[w].request)
         /\ IssuesSplit(w) =>
               \A r \in Enqueued :
                  currentSplitCount(r) = currentSplitCount(loc[w].request) + 1]_vars

\* C17, amended: a pagination request carries no splitCount, whatever the
\* split level of the request of the pass that issued it, so that its level
\* reads as 0; a split request carries that level plus one.
C17_PagesCarryNoLevel ==
    [][\A w \in Workers :
         /\ IssuesPage(w) =>
               \A r \in Enqueued :
                  /\ r.pageNumber >= 2
                  /\ r.splitCount = Undefined
                  /\ currentSplitCount(r) = 0
         /\ IssuesSplit(w) =>
               \A r \in Enqueued :
                  /\ r.pageNumber = 0
                  /\ r.splitCount = currentSplitCount(loc[w].request) + 1]_vars

\* A pass whose request has a split level above 0 put a pagination request
\* in the queue.
C17_Witness ==
    \E w \in Workers :
        /\ loc[w].pc = "paginate"
        /\ currentSplitCount(loc[w].request) >= 1
        /\ requestQueue # <<>>
        /\ requestQueue[Len(requestQueue)] =
              PaginationRequest(queryState(loc[w].request, loc[w].q), loc[w].i - 1)

\* The requests of the queue after a step that it did not hold before.
NewRequests ==
    {requestQueue'[j] : j \in 1..Len(requestQueue')} \
        {requestQueue[j] : j \in 1..Len(requestQueue)}

\* C18: a pass whose request has a page number of 2 or more issues no split
\* request and no pagination request: it runs neither planner, and no
\* request it adds carries a page number or a splitCount.
C18_FollowUpsFromFirstPageOnly ==
    [][\A w \in Workers :
         (/\ loc'[w] # loc[w]
          /\ loc[w].pc # "done"
          /\ loc'[w].request.pageNumber >= 2) =>
            /\ loc'[w].pc \notin {"split", "paginate"}
            /\ ~loc'[w].splitPlanned
            /\ ~loc'[w].pagePlanned
            /\ loc'[w].splitsIssued = <<>>
            /\ loc'[w].pagesIssued = {}
            /\ \A r \in NewRequests : r.pageNumber = 0 /\ r.splitCount = Undefined]_vars

\* A pass of page 2 extracts the results of a page whose total count is over
\* the split threshold, below maxLevel, and enough for a second page.
C18_Witness ==
    \E w \in Workers :
        /\ loc[w].request.pageNumber >= 2
        /\ loc[w].pc = "extract"
        /\ shouldSplit(loc[w].totalCount, loc[w].request, input)
        /\ paginationTriggered(loc[w].totalCount, Cardinality(zpids), maxZpidsFound)
        /\ pageInRange(2, loc[w].totalCount)

StartsQuery(w) ==
    /\ loc'[w].calls = loc[w].calls + 1
    /\ loc'[w].pc = "query"
    /\ loc'[w].phase \in {"pageQs", "extract"}

\* A step of worker w in which it passes the test of line 562 for a query
\* state: it goes on to the planners or the extraction of that query state.
BeginsQueryState(w) ==
    /\ loc[w].pc = "extractStates" \/ loc'[w].q # loc[w].q
    /\ loc[w].pc \notin {"idle", "done"}
    /\ loc'[w].pc \in {"split", "paginate", "extract"}

\* C20, as stated: in a pass over a search or query page no queryZpid call
\* starts in a state where zpids.size >= maxZpidsFound.
C20_NoQueryAtMaxObserved ==
    [][\A w \in Workers :
         StartsQuery(w) => Cardinality(zpids) < maxZpidsFound]_vars

\* C20, amended: zpids.size is tested against maxZpidsFound once for each
\* query state, before its planners and its extraction loop: a pass goes on
\* with a query state only in a state where zpids.size < maxZpidsFound.
\* (The queryZpid calls of the embedded results, and those of the extraction
\* loop after the test, start whatever zpids.size is.)
C20_TestedPerQueryState ==
    [][\A w \in Workers :
         BeginsQueryState(w) => Cardinality(zpids') < maxZpidsFound']_vars

\* A pass went on with its second query state while zpids was not empty.
C20_Witness ==
    \E w \in Workers :
        /\ loc[w].q = 2
        /\ loc[w].pc \in {"split", "paginate", "extract"}
        /\ zpids # {}
        /\ Cardinality(zpids) < maxZpidsFound

\* The request of worker w's pass is a first page.
FirstPage(l) == l.request.label = "QUERY" /\ l.request.pageNumber \in {0, 1}

\* C21, as stated: in a first-page pass every split request is issued before
\* every pagination request, and both before the first queryZpid call of the
\* pass.
C21_PlannersBeforeAnyAttempt ==
    [][\A w \in Workers :
         /\ IssuesSplit(w) => ~loc[w].paged /\ ~loc[w].attempted
         /\ IssuesPage(w) => ~loc[w].attempted]_vars

\* C21, amended: in a first-page pass, for each query state in turn, the
\* split requests are issued before the pagination requests, and both before
\* the queryZpid calls of the extraction loop of that query state.  (The
\* queryZpid calls for the embedded results of the page, and the planners and
\* calls of an earlier query state, come before.)
C21_PlannersBeforeLoopOfQueryState ==
    [][\A w \in Workers :
         /\ IssuesSplit(w) =>
               /\ ~loc'[w].pagePlanned
               /\ loc'[w].pagesIssued = {}
               /\ loc[w].q = loc'[w].q => loc[w].pc \in {"extractStates", "split"}
         /\ IssuesPage(w) =>
               /\ loc'[w].pagePlanned
               /\ loc[w].q = loc'[w].q =>
                     loc[w].pc \in {"extractStates", "split", "paginate"}
         /\ (StartsQuery(w) /\ loc'[w].phase = "extract" /\ FirstPage(loc'[w])) =>
               /\ loc'[w].pagePlanned
               /\ loc'[w].pc \notin {"split", "paginate"}]_vars

\* A first-page pass that issued split and pagination requests for a query
\* state calls queryZpid in the extraction loop of that query state.
C21_Witness ==
    \E w \in Workers :
        /\ FirstPage(loc[w])
        /\ loc[w].pc = "query"
        /\ loc[w].phase = "extract"
        /\ loc[w].splitsIssued # <<>>
        /\ loc[w].pagesIssued # {}

\* The ids of a sequence of results.
Ids(results) == [j \in 1..Len(results) |-> results[j].zpid]

\* s is a prefix of t.
IsPrefix(s, t) == Len(s) <= Len(t) /\ \A j \in 1..Len(s) : s[j] = t[j]

\* n copies of s.
RECURSIVE Copies(_, _)
Copies(s, n) == IF n = 0 THEN <<>> ELSE s \o Copies(s, n - 1)

\* A pass over a search or query page.
QueryPass(l) == l.request.label \in {"QUERY", "SEARCH"} /\ l.pc # "idle"

\* The ids of the embedded results of a page, list results and then map
\* results; none when the page embeds no results.
EmbeddedListThenMap(page) ==
    IF page.store THEN Ids(page.list) \o Ids(page.map) ELSE <<>>

IssuesFollowUp(w) == loc'[w].followUps > loc[w].followUps

\* A step of worker w in which processZpid issues its fallback request.
IssuesFallback(w) ==
    /\ loc'[w].fallbacks = 1
    /\ loc[w].pc = "query" \/ loc'[w].calls = loc[w].calls + 1

\* C23, as stated: once the cap is reached no pass issues a follow-up
\* request, be it a split, a pagination or a fallback request.
C23_NoFollowUpAtCap ==
    [][\A w \in Workers : IssuesFollowUp(w) => ~CapReached]_vars

\* C23, amended: once the cap is reached no pass issues a split request or a
\* fallback request, a pass in the middle of its split loop included.  (The
\* pagination loop does not test the cap: a pass goes on issuing its
\* pagination requests.)
C23_NoSplitNoFallbackAtCap ==
    [][\A w \in Workers :
         /\ IssuesSplit(w) => ~CapReached
         /\ IssuesFallback(w) => ~CapReached
         /\ (IssuesFollowUp(w) /\ CapReached /\ loc[w].request.label = "QUERY") =>
               IssuesPage(w)]_vars

\* A pass left its split loop at the cap and then issued a pagination
\* request.
C23_Witness ==
    \E w \in Workers :
        /\ CapReached
        /\ loc[w].splitCut
        /\ loc[w].splitsIssued # <<>>
        /\ loc[w].pc = "paginate"

\* C24: a pass leaves the target addresses of the run (cleanStartUrls) as
\* they were: no step sets the .matched flag of a target.
C24_TargetsUnchanged ==
    [][matched' = matched]_vars

\* C25: the pagination requests a pass issues for the pages of a query state
\* are all accepted by the queue: no two of them have the same uniqueKey,
\* and the queue holds a request for each page issued.
C25_PagesDistinctWork ==
    (fn.op = "paginate" /\ fn.done) =>
        /\ \A i, j \in fn.pages :
              i # j => PaginationRequest(<<0, 1>>, i).uniqueKey
                         # PaginationRequest(<<0, 1>>, j).uniqueKey
        /\ \A i \in fn.pages :
              \E n \in 1..Len(requestQueue) : requestQueue[n].pageNumber = i

\* ------------------------------------------------------- the bootstrap
\* SpecBoot is the start of a run: the INITIAL request, handleInitialPage and
\* the branch of handlePageFunction on `queryZpid` (main.js lines 238-249).
\* The handlers of the other labels, which Spec runs step by step, are one
\* step here.  fn holds the state of main.js: queryZpid (whether the
\* variable of line 67 is set), maxConcurrency of the pool, saved (the QUERY
\* value of the key-value store), and bootstraps, the passes that have run
\* lines 87-103 of handleInitialPage to their end.

\* The request of main.js lines 77-84.
InitialRequest ==
    Request("INITIAL", Undefined, 0, Undefined, <<0, 0>>, <<"initial", 0, 0>>)

\* startUrls of main.js line 62: a search and the list of input.zpids.
StartUrls ==
    << Request("QUERY", Undefined, 0, Undefined, <<0, 0>>, <<"start", 0, 0>>),
       Request("ZPIDS", Undefined, 0, Undefined, <<0, 0>>, <<"zpids", 0, 0>>) >>

\* The locals of a pass of SpecBoot.  pc is the await it is suspended at:
\*   "intercept"  `await interceptQueryId(page, proxyInfo)`
\*   "setValue"   `await Apify.setValue('QUERY', ...)`
\*   "addStart"   `await requestQueue.addRequest(req)` of the loop, next idx
\*   "handler"    the handler of the label of the request
\* branch is the branch of lines 240-249 the pass took ("initial", "own"),
\* param the queryZpid argument handleInitialPage was called with.
BootIdle ==
    [pc |-> "idle", request |-> NoRequest, session |-> "good", branch |-> "",
     param |-> FALSE, idx |-> 0, status |-> ""]

BootState(queryZpid, maxConcurrency, saved, bootstraps) ==
    [op |-> "boot", queryZpid |-> queryZpid, maxConcurrency |-> maxConcurrency,
     saved |-> saved, bootstraps |-> bootstraps]

\* The passes in progress.
Busy == Cardinality({w \in Workers : loc[w].pc # "idle"})

\* handleInitialPage returned q: `queryZpid = await ...` (line 241), then
\* lines 251-263 with no error recorded.
BootReturn(w, l) ==
    /\ loc' = [loc EXCEPT ![w] = [l EXCEPT !.pc = "done", !.status = "ok"]]

\* The catch of handleInitialPage (lines 105-108).
BootCatch(w, l) ==
    loc' = [loc EXCEPT ![w] = [l EXCEPT !.pc = "done", !.status = "failed",
                                        !.session = "retired"]]

\* `label === LABELS.INITIAL || !queryZpid` (line 240).
BootBranch(label, queryZpid) == label = "INITIAL" \/ ~queryZpid

\* The crawler hands the next request to handlePageFunction, the pool
\* allowing (main.js lines 219-249).
BootStartPass(w) ==
    /\ loc[w].pc = "idle"
    /\ started < MaxBootPasses
    /\ requestQueue # <<>>
    /\ Busy < fn.maxConcurrency
    /\ started' = started + 1
    /\ requestQueue' = Tail(requestQueue)
    /\ LET l == [BootIdle EXCEPT !.request = Head(requestQueue)]
       IN  \E nav \in {"ok", "noResponse", "captcha"} :
             loc' = [loc EXCEPT ![w] =
                CASE nav = "noResponse" ->
                        [l EXCEPT !.pc = "done", !.status = "failed"]
                  [] isOverItems(zpids, input) ->
                        [l EXCEPT !.pc = "done", !.status = "ok"]
                  [] nav = "captcha" ->
                        [l EXCEPT !.pc = "done", !.status = "failed",
                                  !.session = "retired"]
                  [] BootBranch(l.request.label, fn.queryZpid) ->
                        [l EXCEPT !.pc = "intercept", !.branch = "initial",
                                  !.param = fn.queryZpid]
                  [] OTHER -> [l EXCEPT !.pc = "handler", !.branch = "own"]]
    /\ UNCHANGED <<input, zpids, maxZpidsFound, matched, queueKeys, sinkCalls, fn>>

\* `await interceptQueryId` returns (lines 80-91): without a queryId, or with
\* one; with one and an argument that was set, handleInitialPage returns it.
BootIntercept(w) ==
    LET l == loc[w]
    IN  /\ l.pc = "intercept"
        /\ \E ok \in BOOLEAN :
             IF ~ok THEN BootCatch(w, l) /\ UNCHANGED fn
             ELSE IF l.param
             THEN BootReturn(w, l) /\ fn' = [fn EXCEPT !.queryZpid = TRUE]
             ELSE loc' = [loc EXCEPT ![w] = [l EXCEPT !.pc = "setValue"]]
                  /\ UNCHANGED fn
        /\ UNCHANGED <<input, zpids, maxZpidsFound, matched, requestQueue,
                       queueKeys, started, sinkCalls>>

\* The loop of lines 99-101 before start URL idx: the next addRequest, or
\* the end of handleInitialPage.
BootLoop(w, l, idx, f) ==
    IF idx <= Len(StartUrls)
    THEN LET a == addRequests(requestQueue, queueKeys,
                              <<Add(StartUrls[idx], FALSE)>>)
         IN  /\ loc' = [loc EXCEPT ![w] = [l EXCEPT !.pc = "addStart",
                                                     !.idx = idx + 1]]
             /\ requestQueue' = a.queue
             /\ queueKeys' = a.keys
             /\ fn' = f
    ELSE /\ BootReturn(w, l)
         /\ fn' = [f EXCEPT !.queryZpid = TRUE, !.bootstraps = @ + 1]
         /\ UNCHANGED <<requestQueue, queueKeys>>

\* `await Apify.setValue('QUERY', ...)` returns or throws (lines 92-97).
BootSetValue(w) ==
    LET l == loc[w]
    IN  /\ l.pc = "setValue"
        /\ \E ok \in BOOLEAN :
             IF ~ok THEN BootCatch(w, l) /\ UNCHANGED <<fn, requestQueue, queueKeys>>
             ELSE BootLoop(w, l, 1, [fn EXCEPT !.saved = TRUE,
                                               !.maxConcurrency = 10])
        /\ UNCHANGED <<input, zpids, maxZpidsFound, matched, started, sinkCalls>>

\* `await requestQueue.addRequest(req)` of the loop returns.
BootAddStart(w) ==
    /\ loc[w].pc = "addStart"
    /\ BootLoop(w, loc[w], loc[w].idx, fn)
    /\ UNCHANGED <<input, zpids, maxZpidsFound, matched, started, sinkCalls>>

\* The handler of the label of the request returns or throws (lines
\* 243-263).
BootHandler(w) ==
    /\ loc[w].pc = "handler"
    /\ \E ok \in BOOLEAN :
         loc' = [loc EXCEPT ![w] = [loc[w] EXCEPT !.pc = "done",
                    !.status = IF ok THEN "ok" ELSE "failed"]]
    /\ UNCHANGED <<input, zpids, maxZpidsFound, matched, requestQueue, queueKeys,
                   started, sinkCalls, fn>>

\* The crawler after handlePageFunction: a failed request is reclaimed.
BootEndPass(w) ==
    LET l == loc[w]
    IN  /\ l.pc = "done"
        /\ requestQueue' =
             IF l.status = "failed" /\ l.request.retryCount < MaxRequestRetries
             THEN Append(requestQueue, [l.request EXCEPT !.retryCount = @ + 1])
             ELSE requestQueue
        /\ loc' = [loc EXCEPT ![w] = BootIdle]
        /\ UNCHANGED <<input, zpids, maxZpidsFound, matched, queueKeys, started,
                       sinkCalls, fn>>

\* A run starts with no saved QUERY value: the INITIAL request and a pool of
\* one (main.js lines 72-84, 219).
InitBoot ==
    /\ input = Input(0, Undefined, Undefined)
    /\ zpids = {}
    /\ maxZpidsFound = 0
    /\ matched = {}
    /\ requestQueue = <<InitialRequest>>
    /\ queueKeys = {InitialRequest.uniqueKey}
    /\ started = 0
    /\ loc = [w \in Workers |-> BootIdle]
    /\ sinkCalls = [z \in ValidIds |-> 0]
    /\ fn = BootState(FALSE, 1, FALSE, 0)

NextBoot ==
    \E w \in Workers :
        \/ BootStartPass(w)
        \/ BootIntercept(w)
        \/ BootSetValue(w)
        \/ BootAddStart(w)
        \/ BootHandler(w)
        \/ BootEndPass(w)

SpecBoot == InitBoot /\ [][NextBoot]_vars

\* C26: a request labelled QUERY, SEARCH, ZPIDS or DETAIL whose pass ends
\* without error was handled by the handler of its label, unless the cap was
\* reached: none is taken by the bootstrap branch and then marked done.
C26_HandledByOwnHandler ==
    \A w \in Workers :
        (/\ loc[w].pc = "done"
         /\ loc[w].status = "ok"
         /\ loc[w].request.label \in {"QUERY", "SEARCH", "ZPIDS", "DETAIL"}) =>
            loc[w].branch = "own" \/ isOverItems(zpids, input)

\* C27: at most one pass of a run runs the bootstrap (the query function
\* created and saved, the concurrency raised, the start URLs enqueued).
C27_BootstrapAtMostOnce ==
    fn.bootstraps <= 1

\* ------------------------------------------------------- termination
\* SpecLive is Spec with the scheduling of the host: a continuation that is
\* ready runs, and a free worker takes the next request of the queue.

SpecLive == Spec /\ WF_vars(Next)

\* The tries a request has left after the one in progress or in the queue.
RetryBudget(r) ==
    IF r.noRetry \/ r.retryCount >= MaxRequestRetries THEN 0
    ELSE MaxRequestRetries - r.retryCount

\* The rectangles n levels or fewer below the rectangles rects.
RECURSIVE Descendants(_, _)
Descendants(rects, n) ==
    IF n = 0 THEN rects
    ELSE rects \cup Descendants({r * SplitArity + k : r \in rects, k \in 1..SplitArity},
                                n - 1)

\* The categories of a search.
Categories == UNION {0..x.n : x \in UNION {Extractions(p) : p \in Pages \cup {NoPage}}}

\* The uniqueKeys a run can give to the queue: the start requests, the first
\* pages and the next pages of the rectangles that split levels up to
\* maxLevel reach from them, and the DETAIL request of each id.
KeyUniverse(inp) ==
    LET starts == StartRequests(inp)
        rects == UNION { Descendants({s.qs[1]},
                                     maxLevelOf(inp.maxLevel) - currentSplitCount(s)) :
                         s \in {r \in starts : r.label = "QUERY" /\ r.pageNumber = 0} }
    IN  {s.uniqueKey : s \in starts}
          \cup {quickHash(<<r, q>>) : r \in rects, q \in Categories}
          \cup {DetailRequest(z).uniqueKey : z \in ValidIds}

RECURSIVE QueueRank(_)
QueueRank(queue) ==
    IF queue = <<>> THEN 0
    ELSE 1 + RetryBudget(Head(queue)) + QueueRank(Tail(queue))

RECURSIVE PassRank(_, _)
PassRank(ws, lc) ==
    IF ws = {} THEN 0
    ELSE LET w == CHOOSE x \in ws : TRUE
         IN  (IF lc[w].pc = "idle" THEN 0 ELSE RetryBudget(lc[w].request))
               + PassRank(ws \ {w}, lc)

\* The passes a run can still start for the requests it knows: a try for
\* each request of the queue, and the tries each of them and each request in
\* progress has left.
Rank(queue, lc) == QueueRank(queue) + PassRank(Workers, lc)

\* The uniqueKeys a step gave to the queue.
NewKeys == queueKeys' \ queueKeys

\* The run is over: no pass is in progress and the queue is empty (or the
\* passes of the model are used up).
Drained ==
    /\ \A w \in Workers : loc[w].pc = "idle"
    /\ requestQueue = <<>> \/ started = MaxPasses

DetailEnds(w) ==
    /\ loc'[w].request.label = "DETAIL"
    /\ loc[w].pc # "done"
    /\ loc'[w].pc = "done"

\* A step in which the host takes back the request of the pass of worker w.
DetailLeaves(w) ==
    /\ loc[w].request.label = "DETAIL"
    /\ loc[w].pc = "done"
    /\ loc'[w].pc = "idle"

\* The host retries a failed request unless noRetry is set or its retries
\* are used up, and a request that failed with no building zpid in its
\* __NEXT_DATA__, and no other, has noRetry set.
DetailFailures(w) ==
    /\ (DetailEnds(w) /\ loc'[w].status = "failed") =>
          (loc'[w].request.noRetry <=>
              loc[w].pc = "detailNext" /\ loc'[w].found = MissingId)
    /\ (DetailLeaves(w) /\ loc[w].status = "failed") =>
          requestQueue' =
             IF loc[w].request.noRetry \/ loc[w].request.retryCount >= MaxRequestRetries
             THEN requestQueue
             ELSE Append(requestQueue,
                         [loc[w].request EXCEPT !.retryCount = @ + 1])

\* C29, as stated: the pass of a DETAIL request ends without error only if
\* the cap was reached when it began, or it enqueued at the head of the queue
\* the request keyed by the building zpid of the page, or the output sink
\* returned for its id; any other pass fails and is retried, with noRetry
\* set when the page has no building zpid.
C29_OkOnlyIfEnqueuedOrSunk ==
    [][\A w \in Workers :
         /\ (DetailEnds(w) /\ loc'[w].status = "ok") =>
               \/ loc[w].pc = "idle" /\ isOverItems(zpids, input)
               \/ /\ loc[w].pc = "detailNext"
                  /\ loc'[w].found \in ValidIds
                  /\ DetailRequest(loc'[w].found).uniqueKey \notin queueKeys
                  /\ requestQueue' = <<DetailRequest(loc'[w].found)>> \o requestQueue
               \/ loc[w].pc = "detail" /\ loc'[w].sunk >= 1
         /\ DetailFailures(w)]_vars

\* C29, amended: ... or it called addRequest, with forefront, for the request
\* keyed by the building zpid of the page (a request the queue takes at its
\* head, unless it knows the key already and drops it), or ...
C29_OkOnlyIfReroutedOrSunk ==
    [][\A w \in Workers :
         /\ (DetailEnds(w) /\ loc'[w].status = "ok") =>
               \/ loc[w].pc = "idle" /\ isOverItems(zpids, input)
               \/ /\ loc[w].pc = "detailNext"
                  /\ loc'[w].found \in ValidIds
                  /\ loc'[w].followUps = 1
                  /\ requestQueue' =
                       IF DetailRequest(loc'[w].found).uniqueKey \in queueKeys
                       THEN requestQueue
                       ELSE <<DetailRequest(loc'[w].found)>> \o requestQueue
               \/ loc[w].pc = "detail" /\ loc'[w].sunk >= 1
         /\ DetailFailures(w)]_vars

\* The pass of a DETAIL request has ended without error on a page with a
\* building zpid whose request the queue knew (another pass has taken it):
\* nothing was enqueued.
C29_Witness ==
    \E w \in Workers :
        /\ loc[w].pc = "done"
        /\ loc[w].status = "ok"
        /\ loc[w].request.label = "DETAIL"
        /\ loc[w].found \in ValidIds
        /\ requestQueue = <<>>
        /\ \E v \in Workers : loc[v].request = DetailRequest(loc[w].found)

====
